---- MODULE Spec2Model ----
(***************************************************************************)
(* wbackup, modelled as state machines: the chunked file splitter          *)
(* (src/utils.ts, splitFile), the Redis background-save waiter and the     *)
(* backup that calls it (src/strategies/backup/redis.ts), the webhook      *)
(* delivery that splits and sends a backup file                            *)
(* (src/strategies/delivery/discord.ts, telegram.ts) and the BackupManager *)
(* that runs a backup strategy and a delivery strategy (src/manager.ts),   *)
(* alone and composed with a concrete delivery into one run, the strategy  *)
(* Registry, the validation of the RDB path and the in-memory splitFile.   *)
(*                                                                         *)
(* File contents are sequences of segments <<origin, offset, length>>: the *)
(* byte at position p of an original file is the symbolic byte             *)
(* (origin, p), so every byte of a file is distinct and any byte that is   *)
(* misplaced, dropped or duplicated by a copy shows in the content.        *)
(***************************************************************************)
EXTENDS Integers, Sequences, FiniteSets, TLC

(***************************************************************************)
(* Bounds of the model.                                                    *)
(***************************************************************************)
MaxBufs == 2
MaxExtra == 2
MaxChunks == 3
MaxShortReads == 1

(***************************************************************************)
(* Program constants.                                                      *)
(***************************************************************************)
BUFFER_SIZE == 64 * 1024

\* what the file system holds at a path where there is no file: no content
\* has a segment of length 0
NoFile == << <<"ENOENT", 0, 0>> >>
SourcePath == "dump.gz"

Min(a, b) == IF a < b THEN a ELSE b

\* Math.ceil(a / b) for a >= 0, b > 0
Ceil(a, b) == (a + b - 1) \div b

\* sizes from which file lengths and thresholds are drawn
SizeSet == { a * BUFFER_SIZE + b : a \in 0..MaxBufs, b \in 0..MaxExtra }

(***************************************************************************)
(* File contents.                                                          *)
(***************************************************************************)
RECURSIVE Size(_)
Size(c) == IF c = <<>> THEN 0 ELSE Head(c)[3] + Size(Tail(c))

\* an untouched file of n bytes created under the name p
Original(p, n) == IF n = 0 THEN <<>> ELSE << <<p, 0, n>> >>

\* c followed by the segment s, merging s into the last segment when the
\* two are adjacent bytes of the same origin
AddSeg(c, s) ==
  IF s[3] = 0 THEN c
  ELSE IF c = <<>> THEN <<s>>
  ELSE LET l == c[Len(c)] IN
       IF l[1] = s[1] /\ l[2] + l[3] = s[2]
       THEN [c EXCEPT ![Len(c)] = <<l[1], l[2], l[3] + s[3]>>]
       ELSE Append(c, s)

RECURSIVE Cat(_, _)
Cat(c, d) == IF d = <<>> THEN c ELSE Cat(AddSeg(c, Head(d)), Tail(d))

\* the n bytes of c from position pos on (fewer when c ends before)
RECURSIVE Slice(_, _, _)
Slice(c, pos, n) ==
  IF c = <<>> \/ n <= 0 THEN <<>>
  ELSE LET h == Head(c) IN
       IF pos >= h[3] THEN Slice(Tail(c), pos - h[3], n)
       ELSE LET take == Min(n, h[3] - pos) IN
            Cat(<< <<h[1], h[2] + pos, take>> >>, Slice(Tail(c), 0, n - take))

\* concatenation of the files named by a sequence of paths
RECURSIVE ConcatFiles(_, _)
ConcatFiles(f, ps) ==
  IF ps = <<>> THEN <<>>
  ELSE Cat(IF f[Head(ps)] = NoFile THEN <<>> ELSE f[Head(ps)], ConcatFiles(f, Tail(ps)))

(***************************************************************************)
(* splitFile: names.                                                       *)
(***************************************************************************)
\* faulty variants of ChunkPath: the loop index used as it is; the suffix forgotten
ChunkPathZeroBased(p, i) == p \o ".part" \o ToString(i)

ChunkPathNoSuffix(p, i) == p

\* `${filePath}.part${i + 1}`
ChunkPath(p, i) == p \o ".part" \o ToString(i + 1)

Paths == {SourcePath} \cup { ChunkPath(SourcePath, i) : i \in 0..MaxChunks }

VARIABLES
  fs,            \* the file system: path -> content, or NoFile
  spc,           \* position of the splitFile call
  maxSizeBytes,  \* splitFile argument
  fileSize,      \* splitFile local: size read on entry
  numChunks,     \* splitFile local
  idx,           \* splitFile local: loop variable i
  bytesWritten,  \* splitFile local
  chunks,        \* splitFile local: the result array
  handleOpen,    \* the read handle on the source is open
  \* history of the call, for the properties
  entryFs,       \* the file system on entry
  srcChanged,    \* another process truncated the source during the call
  opened,        \* paths opened for writing by the call, in order
  shortReads,    \* number of short reads so far
  prev           \* the call before, if any: its arguments and result

splitVars == <<fs, spc, maxSizeBytes, fileSize, numChunks, idx, bytesWritten, chunks,
               handleOpen, entryFs, srcChanged, opened, shortReads, prev>>

\* the variables of the splitFile call, the file system apart
splitCall == <<spc, maxSizeBytes, fileSize, numChunks, idx, bytesWritten, chunks, handleOpen,
               entryFs, srcChanged, opened, shortReads, prev>>

VARIABLES
  rdbLastSaveTime,     \* rdb_last_save_time: time of the last successful save
  bgsaveInProgress,    \* rdb_bgsave_in_progress
  lastBgsaveStatus,    \* rdb_last_bgsave_status: "ok" or "err"
  infoFormat,          \* how the server writes INFO fields: "standard" or "free"
  \* RedisBackupStrategy.triggerAndWaitForSave
  wpc,                 \* position of the waiter
  lastSave,            \* local: the baseline, await redis.lastsave()
  now,                 \* Date.now(), in ms since the clock was first read
  startWait,           \* local: Date.now() when polling began
  \* history of the call, for the properties
  triggered,           \* the call issued BGSAVE
  infoInProgress,      \* local info: it includes 'rdb_bgsave_in_progress:1'
  sent,                \* the store command issued by the waiter's last step
  resp,                \* the last poll: parsed token, failure marker, token field
  lastCheck,           \* elapsed time at the last passed loop condition
  \* the caller's context, which triggerAndWaitForSave is not given
  cancelled,           \* the caller's context has been cancelled
  polledAfterCancel    \* the loop condition let a poll begin after that

storeVars == <<rdbLastSaveTime, bgsaveInProgress, lastBgsaveStatus, infoFormat>>

waiterVars == <<wpc, lastSave, now, startWait, triggered, infoInProgress, sent, resp, lastCheck>>

cancelVars == <<cancelled, polledAfterCancel>>

redisVars == <<storeVars, waiterVars, cancelVars>>

VARIABLES
  \* RedisBackupStrategy.backup
  bpc,                 \* position of the backup call
  connected,           \* the connection made by new Redis(options) is open
  outputFile,          \* the file at outputPath: "none", "copy" or "gz"
  pathInput,           \* where the snapshot path comes from, and its text
  rdbPath,             \* local: the path handed to validateRdbPath
  backupError,         \* what backup rejected with: "none", "BackupError", "Error"
  \* DiscordDeliveryStrategy.deliver, TelegramDeliveryStrategy.deliver
  dpc,                 \* position of the deliver call
  di,                  \* local: loop variable i
  dresult,             \* the DeliveryResult returned: "none", "success", "failure"
  dlog,                \* history: the sends and removals of the call, in order
  \* BackupManager
  mpc,                 \* position of the run call
  databaseConfig,      \* field: set by database()
  deliveryConfig,      \* field: set by delivery()
  shouldRetainBackup,  \* field
  onSuccessCallback,   \* field: set by onSuccess()
  onErrorCallback,     \* field: set by onError()
  backupResult,        \* run local: the backup strategy's result is there
  caught,              \* run local: the error in the catch block
  rejection,           \* history: the error run rejected with
  mlog,                \* history: progress events and strategy calls, in order
  \* Registry
  backupStrategies,    \* field: the Map of backup factories, in insertion order
  deliveryStrategies,  \* field: the Map of delivery factories, in insertion order
  lastRegister         \* history: the last register call and the registry before it

backupVars == <<bpc, connected, outputFile, pathInput, rdbPath, backupError>>

deliverVars == <<dpc, di, dresult, dlog>>

managerVars == <<mpc, databaseConfig, deliveryConfig, shouldRetainBackup, onSuccessCallback,
                 onErrorCallback, backupResult, caught, rejection, mlog>>

registryVars == <<backupStrategies, deliveryStrategies, lastRegister>>

appVars == <<backupVars, deliverVars, managerVars, registryVars>>

vars == <<splitVars, redisVars, appVars>>

NoPrev == [kind |-> "none"]

NoResp == [token |-> -1, err |-> FALSE, field |-> [present |-> FALSE, text |-> <<>>]]


(***************************************************************************)
(* splitFile (src/utils.ts:68-124).                                        *)
(***************************************************************************)
\* faulty variant of FastPath: a file of exactly the threshold is split
FastPathStrict(size, T) == size < T

\* if (fileSize <= maxSizeBytes) return [filePath]
FastPath(size, T) == size <= T

\* faulty variant of NumChunks: Math.floor for Math.ceil
NumChunksFloor(size, T) == size \div T

\* const numChunks = Math.ceil(fileSize / maxSizeBytes)
NumChunks(size, T) == Ceil(size, T)

\* faulty variant of Start: consecutive chunks overlap by one byte
StartOverlap(i) == i * (maxSizeBytes - 1)

\* const start = i * maxSizeBytes
Start(i) == i * maxSizeBytes

\* const chunkSize = Math.min(maxSizeBytes, fileSize - start)
ChunkSize(i) == Min(maxSizeBytes, fileSize - Start(i))

\* faulty variant of ReadSize: the rest of the chunk in one read
ReadSizeRestOfChunk(i, written) == ChunkSize(i) - written

\* const readSize = Math.min(BUFFER_SIZE, chunkSize - bytesWritten)
ReadSize(i, written) == Min(BUFFER_SIZE, ChunkSize(i) - written)

\* the byte counts fileHandle.read may return for a request of n bytes at
\* position pos: 0 at or past the end of the file, otherwise everything
\* that is there up to n, or fewer bytes (a short read)
BytesRead(c, pos, n) ==
  LET avail == Min(n, Size(c) - pos) IN
  IF avail <= 0 THEN {0}
  ELSE {avail} \cup (IF shortReads < MaxShortReads THEN {1, avail - 1} \ {0} ELSE {})

\* entry: getFileSize, the fast path, Math.ceil and open(filePath, 'r');
\* the caller repeats the call once, after a call that returned from an
\* unchanged source
SplitEntry(T) ==
  /\ spc = "idle" \/ (spc = "done" /\ ~srcChanged /\ prev = NoPrev)
  /\ fs[SourcePath] # NoFile
  /\ LET size == Size(fs[SourcePath]) IN
     /\ NumChunks(size, T) <= MaxChunks
     /\ maxSizeBytes' = T
     /\ fileSize' = size
     /\ IF FastPath(size, T)
        THEN /\ chunks' = <<SourcePath>>
             /\ spc' = "done"
             /\ numChunks' = 0
             /\ handleOpen' = FALSE
        ELSE /\ chunks' = <<>>
             /\ spc' = "loop"
             /\ numChunks' = NumChunks(size, T)
             /\ handleOpen' = TRUE
  /\ idx' = 0
  /\ bytesWritten' = 0
  /\ entryFs' = fs
  /\ srcChanged' = FALSE
  /\ opened' = <<>>
  /\ shortReads' = 0
  /\ prev' = IF spc = "idle" THEN NoPrev
             ELSE [kind |-> spc, T |-> maxSizeBytes, size |-> fileSize, result |-> chunks]
  /\ UNCHANGED fs

\* splitFile called on its own
SplitBegin(T) == SplitEntry(T) /\ UNCHANGED <<redisVars, appVars>>

\* for (let i = 0; i < numChunks; i++): createWriteStream(chunkPath), or,
\* after the last chunk, the finally block and the return
SplitLoop ==
  /\ spc = "loop"
  /\ IF idx < numChunks
     THEN /\ fs' = [fs EXCEPT ![ChunkPath(SourcePath, idx)] = <<>>]
          /\ opened' = Append(opened, ChunkPath(SourcePath, idx))
          /\ bytesWritten' = 0
          /\ spc' = "copy"
          /\ UNCHANGED handleOpen
     ELSE /\ handleOpen' = FALSE
          /\ spc' = "done"
          /\ UNCHANGED <<fs, opened, bytesWritten>>
  /\ UNCHANGED <<maxSizeBytes, fileSize, numChunks, idx, chunks, entryFs, srcChanged,
                 shortReads, prev, redisVars, appVars>>

\* one iteration of while (bytesWritten < chunkSize): read, break on
\* bytesRead === 0, write, bytesWritten += bytesRead
SplitCopy ==
  /\ spc = "copy"
  /\ LET path == ChunkPath(SourcePath, idx)
         pos == Start(idx) + bytesWritten
         want == ReadSize(idx, bytesWritten)
     IN \E n \in BytesRead(fs[SourcePath], pos, want) :
          IF n = 0
          THEN /\ spc' = "end"
               /\ UNCHANGED <<fs, bytesWritten, shortReads>>
          ELSE /\ fs' = [fs EXCEPT ![path] = Cat(fs[path], Slice(fs[SourcePath], pos, n))]
               /\ bytesWritten' = bytesWritten + n
               /\ shortReads' = IF n < Min(want, Size(fs[SourcePath]) - pos)
                                THEN shortReads + 1 ELSE shortReads
               /\ spc' = IF bytesWritten + n < ChunkSize(idx) THEN "copy" ELSE "end"
  /\ UNCHANGED <<maxSizeBytes, fileSize, numChunks, idx, chunks, handleOpen, entryFs,
                 srcChanged, opened, prev, redisVars, appVars>>

\* writeStream.end, chunks.push(chunkPath), i++
SplitEnd ==
  /\ spc = "end"
  /\ chunks' = Append(chunks, ChunkPath(SourcePath, idx))
  /\ idx' = idx + 1
  /\ spc' = "loop"
  /\ UNCHANGED <<fs, maxSizeBytes, fileSize, numChunks, bytesWritten, handleOpen, entryFs,
                 srcChanged, opened, shortReads, prev, redisVars, appVars>>

\* faulty variant of SplitIOError: the chunks written so far are removed
\* before the error leaves splitFile
SplitIOErrorRemovesChunks ==
  /\ spc \in {"copy", "end"}
  /\ handleOpen' = FALSE
  /\ spc' = "error"
  /\ fs' = [p \in DOMAIN fs |->
             IF \E j \in 1..Len(opened) : opened[j] = p THEN NoFile ELSE fs[p]]
  /\ UNCHANGED <<maxSizeBytes, fileSize, numChunks, idx, bytesWritten, chunks, entryFs,
                 srcChanged, opened, shortReads, prev, redisVars, appVars>>

\* a read, a write or the end of a stream rejects: the finally block closes
\* the handle and the error leaves splitFile
SplitIOError ==
  /\ spc \in {"copy", "end"}
  /\ handleOpen' = FALSE
  /\ spc' = "error"
  /\ UNCHANGED <<fs, maxSizeBytes, fileSize, numChunks, idx, bytesWritten, chunks, entryFs,
                 srcChanged, opened, shortReads, prev, redisVars, appVars>>

\* another process truncates the source while splitFile copies a chunk
EnvShrink ==
  /\ spc = "copy"
  /\ ~srcChanged
  /\ \E n \in SizeSet :
       /\ n < Size(fs[SourcePath])
       /\ fs' = [fs EXCEPT ![SourcePath] = Slice(fs[SourcePath], 0, n)]
  /\ srcChanged' = TRUE
  /\ UNCHANGED <<spc, maxSizeBytes, fileSize, numChunks, idx, bytesWritten, chunks,
                 handleOpen, entryFs, opened, shortReads, prev, redisVars, appVars>>

(***************************************************************************)
(* splitFile as it was before it streamed: the whole file read into one    *)
(* buffer, each chunk a subarray written with writeFile.                   *)
(***************************************************************************)
\* buffer.subarray(start, end): the indices are clamped to the buffer
Subarray(buffer, start, end) ==
  LET e == Min(end, Size(buffer)) IN Slice(buffer, start, e - start)

\* faulty variant of InMemoryChunk: the last byte of every chunk is left out
InMemoryChunkShort(buffer, size, T, i) ==
  Subarray(buffer, i * T, Min(i * T + T, size) - 1)

\* const start = i * maxSizeBytes; const end = Math.min(start +
\* maxSizeBytes, fileSize); const chunk = buffer.subarray(start, end)
InMemoryChunk(buffer, size, T, i) ==
  Subarray(buffer, i * T, Min(i * T + T, size))

\* the paths returned and the file system left by the call on the file
\* system f with the threshold T, when no read or write fails
InMemorySplit(f, T) ==
  LET size == Size(f[SourcePath])
      n == Ceil(size, T)
  IN IF size <= T THEN [chunks |-> <<SourcePath>>, fs |-> f]
     ELSE [chunks |-> [k \in 1..n |-> ChunkPath(SourcePath, k - 1)],
           fs |-> [p \in DOMAIN f |->
                    IF \E i \in 0..(n - 1) : p = ChunkPath(SourcePath, i)
                    THEN InMemoryChunk(f[SourcePath], size, T,
                                       CHOOSE i \in 0..(n - 1) : p = ChunkPath(SourcePath, i))
                    ELSE f[p]]]

(***************************************************************************)
(* The Redis store, as seen through LASTSAVE, INFO persistence and BGSAVE. *)
(***************************************************************************)
SAVE_TIMEOUT == 300000
POLL_INTERVAL == 500

\* bounds of the waiter model
BaseToken == 100
MaxSaves == 1
MaxLatency == 1
MaxLate == 1

\* the time a store command or a late timer takes is a multiple of this
DelayUnit == POLL_INTERVAL

Latencies == { k * DelayUnit : k \in 0..MaxLatency }

Lateness == { k * DelayUnit : k \in 0..MaxLate }

(***************************************************************************)
(* The text of a field of the INFO reply, and its parsing.                 *)
(***************************************************************************)
DigitChars == <<"0", "1", "2", "3", "4", "5", "6", "7", "8", "9">>

IsDigit(ch) == \E d \in 1..10 : DigitChars[d] = ch

DigitValue(ch) == (CHOOSE d \in 1..10 : DigitChars[d] = ch) - 1

\* the decimal text of n >= 0, as Redis prints it
RECURSIVE Decimal(_)
Decimal(n) ==
  IF n < 10 THEN <<DigitChars[n + 1]>>
  ELSE Append(Decimal(n \div 10), DigitChars[(n % 10) + 1])

\* the longest prefix of digits of a text: what (\d+) captures right after
\* the field name
RECURSIVE LeadingDigits(_)
LeadingDigits(t) ==
  IF t = <<>> \/ ~IsDigit(Head(t)) THEN <<>>
  ELSE <<Head(t)>> \o LeadingDigits(Tail(t))

\* parseInt(digits, 10)
RECURSIVE ParseInt(_)
ParseInt(t) ==
  IF t = <<>> THEN 0
  ELSE 10 * ParseInt(SubSeq(t, 1, Len(t) - 1)) + DigitValue(t[Len(t)])

\* a reply without the field
Absent == [present |-> FALSE, text |-> <<>>]

\* a reply with the field and this text after the colon
Field(t) == [present |-> TRUE, text |-> t]

\* faulty variant of CurrentSave: a field that is not a number throughout
\* counts as no number
CurrentSaveWholeField(field) ==
  IF ~field.present \/ field.text = <<>> \/ LeadingDigits(field.text) # field.text THEN 0
  ELSE ParseInt(field.text)

\* const lastSaveMatch = infoCheck.match(/rdb_last_save_time:(\d+)/)
\* const currentSave = lastSaveMatch ? parseInt(lastSaveMatch[1], 10) : 0
CurrentSave(field) ==
  IF ~field.present \/ LeadingDigits(field.text) = <<>> THEN 0
  ELSE ParseInt(LeadingDigits(field.text))

\* the field is missing, or its text is not a decimal number
Malformed(field) ==
  ~field.present \/ field.text = <<>> \/ LeadingDigits(field.text) # field.text

\* the rdb_last_save_time field of an INFO reply: the decimal time, or no
\* such field; a server that does not write the field as Redis does may
\* also send no number, or a number followed by something else
SaveTimeFields ==
  {Field(Decimal(rdbLastSaveTime)), Absent}
    \cup (IF infoFormat = "free"
          THEN {Field(<<"x">>), Field(Decimal(rdbLastSaveTime) \o <<".", "5">>)}
          ELSE {})

(***************************************************************************)
(* The waiter's decisions.                                                 *)
(***************************************************************************)
\* if (!info.includes('rdb_bgsave_in_progress:1')) await redis.bgsave()
MustTrigger(inProgress) == ~inProgress

\* faulty variants of LoopCondition: one more iteration at the deadline; the last
\* sleep counted in advance
LoopConditionInclusive(elapsed) == elapsed <= SAVE_TIMEOUT

LoopConditionEarly(elapsed) == elapsed + POLL_INTERVAL < SAVE_TIMEOUT

\* while (Date.now() - startWait < SAVE_TIMEOUT)
LoopCondition(elapsed) == elapsed < SAVE_TIMEOUT

\* faulty variant of SaveCompleted: a token equal to the baseline counts
SaveCompletedOrEqual(currentSave, baseline) == currentSave >= baseline

\* if (currentSave > lastSave) return
SaveCompleted(currentSave, baseline) == currentSave > baseline

\* faulty variant of SaveFailed: the failure marker is ignored
SaveFailedNever(err) == FALSE

\* if (infoCheck.includes('rdb_last_bgsave_status:err')) throw
SaveFailed(err) == err

\* faulty variant of PollResult: a failed save is triggered again
PollResultRetry(currentSave, baseline, err) ==
  IF SaveCompleted(currentSave, baseline) THEN "Completed"
  ELSE IF SaveFailed(err) THEN "bgsave"
  ELSE "sleep"

\* the body of the loop after the INFO reply: return, throw or sleep
PollResult(currentSave, baseline, err) ==
  IF SaveCompleted(currentSave, baseline) THEN "Completed"
  ELSE IF SaveFailed(err) THEN "Failed"
  ELSE "sleep"

\* await this.sleep(POLL_INTERVAL): setTimeout fires after the interval,
\* or later
SleepTime(late) == POLL_INTERVAL + late

Terminal == {"Completed", "Failed", "TimedOut", "CommandError"}

(***************************************************************************)
(* The store's own steps.                                                  *)
(***************************************************************************)
\* the running background save finishes: rdb_last_save_time becomes the
\* current time in seconds, which may be the second of the save before
StoreSaveSucceeds ==
  /\ bgsaveInProgress
  /\ bgsaveInProgress' = FALSE
  /\ lastBgsaveStatus' = "ok"
  /\ \E t \in {rdbLastSaveTime, rdbLastSaveTime + 1} :
       /\ t <= BaseToken + MaxSaves
       /\ rdbLastSaveTime' = t
  /\ UNCHANGED <<infoFormat, waiterVars, splitVars, cancelVars, appVars>>

\* the running background save fails
StoreSaveFails ==
  /\ bgsaveInProgress
  /\ bgsaveInProgress' = FALSE
  /\ lastBgsaveStatus' = "err"
  /\ UNCHANGED <<rdbLastSaveTime, infoFormat, waiterVars, splitVars, cancelVars, appVars>>

\* another client, or a save point of the configuration, starts a save
StoreOtherSave ==
  /\ ~bgsaveInProgress
  /\ bgsaveInProgress' = TRUE
  /\ UNCHANGED <<rdbLastSaveTime, lastBgsaveStatus, infoFormat, waiterVars, splitVars,
                 cancelVars, appVars>>

(***************************************************************************)
(* triggerAndWaitForSave (src/strategies/backup/redis.ts:157-186).         *)
(***************************************************************************)
\* The clock is first read when polling begins (startWait); the time the
\* commands before it take is not observed by the code and not counted.

\* the call begins: redis.lastsave() is sent
WaiterEntry ==
  /\ wpc = "idle"
  /\ wpc' = "lastsave"
  /\ sent' = "LASTSAVE"
  /\ UNCHANGED <<lastSave, now, startWait, triggered, infoInProgress, resp, lastCheck,
                 storeVars, cancelVars>>

\* triggerAndWaitForSave called on its own
WaiterCall == WaiterEntry /\ UNCHANGED <<splitVars, appVars>>

\* const lastSave = await redis.lastsave(); redis.info('persistence') is sent
WaiterLastSave ==
  /\ wpc = "lastsave"
  /\ lastSave' = rdbLastSaveTime
  /\ wpc' = "info"
  /\ sent' = "INFO"
  /\ UNCHANGED <<now, startWait, triggered, infoInProgress, resp, lastCheck, storeVars,
                 splitVars, cancelVars, appVars>>

\* const info = await redis.info('persistence'); BGSAVE is sent unless a
\* save is reported in progress, and polling begins otherwise
WaiterInfo ==
  /\ wpc = "info"
  /\ infoInProgress' = bgsaveInProgress
  /\ IF MustTrigger(bgsaveInProgress)
     THEN /\ wpc' = "bgsave"
          /\ sent' = "BGSAVE"
          /\ triggered' = TRUE
          /\ UNCHANGED startWait
     ELSE /\ wpc' = "check"
          /\ sent' = "none"
          /\ startWait' = now
          /\ UNCHANGED triggered
  /\ UNCHANGED <<now, lastSave, resp, lastCheck, storeVars, splitVars, cancelVars,
                 appVars>>

\* await redis.bgsave(): the store starts a background save, or rejects the
\* command because one is running; const startWait = Date.now()
WaiterBgsave ==
  /\ wpc = "bgsave"
  /\ IF bgsaveInProgress
     THEN /\ wpc' = "CommandError"
          /\ UNCHANGED <<startWait, bgsaveInProgress>>
     ELSE /\ wpc' = "check"
          /\ startWait' = now
          /\ bgsaveInProgress' = TRUE
  /\ sent' = "none"
  /\ UNCHANGED <<now, lastSave, triggered, infoInProgress, resp, lastCheck, rdbLastSaveTime,
                 lastBgsaveStatus, infoFormat, splitVars, cancelVars, appVars>>

\* faulty variant of WaiterCheck: every iteration reads the token with a
\* command of its own
WaiterCheckSendsLastSave ==
  /\ wpc = "check"
  /\ IF LoopCondition(now - startWait)
     THEN /\ wpc' = "poll"
          /\ sent' = "LASTSAVE"
          /\ lastCheck' = now - startWait
          /\ polledAfterCancel' = cancelled
     ELSE /\ wpc' = "TimedOut"
          /\ sent' = "none"
          /\ UNCHANGED <<lastCheck, polledAfterCancel>>
  /\ UNCHANGED <<lastSave, now, startWait, triggered, infoInProgress, resp, storeVars,
                 splitVars, cancelled, appVars>>

\* the loop condition: redis.info('persistence') is sent, or the loop is
\* left and the time-out error thrown
WaiterCheck ==
  /\ wpc = "check"
  /\ IF LoopCondition(now - startWait)
     THEN /\ wpc' = "poll"
          /\ sent' = "INFO"
          /\ lastCheck' = now - startWait
          /\ polledAfterCancel' = cancelled
     ELSE /\ wpc' = "TimedOut"
          /\ sent' = "none"
          /\ UNCHANGED <<lastCheck, polledAfterCancel>>
  /\ UNCHANGED <<lastSave, now, startWait, triggered, infoInProgress, resp, storeVars,
                 splitVars, cancelled, appVars>>

\* const infoCheck = await redis.info('persistence'), parsing and the two
\* tests of the reply
WaiterPoll ==
  /\ wpc = "poll"
  /\ \E d \in Latencies, field \in SaveTimeFields :
       LET currentSave == CurrentSave(field)
           err == lastBgsaveStatus = "err"
       IN /\ now' = now + d
          /\ resp' = [token |-> currentSave, err |-> err, field |-> field]
          /\ wpc' = PollResult(currentSave, lastSave, err)
  /\ sent' = "none"
  /\ UNCHANGED <<lastSave, startWait, triggered, infoInProgress, lastCheck, storeVars,
                 splitVars, cancelVars, appVars>>

\* await this.sleep(POLL_INTERVAL)
WaiterSleep ==
  /\ wpc = "sleep"
  /\ \E late \in Lateness : now' = now + SleepTime(late)
  /\ wpc' = "check"
  /\ sent' = "none"
  /\ UNCHANGED <<lastSave, startWait, triggered, infoInProgress, resp, lastCheck,
                 storeVars, splitVars, cancelVars, appVars>>

\* a store command is rejected (connection lost, retries used up): the
\* error leaves triggerAndWaitForSave
WaiterCommandError ==
  /\ wpc \in {"lastsave", "info", "bgsave", "poll"}
  /\ wpc' = "CommandError"
  /\ sent' = "none"
  /\ UNCHANGED <<now, lastSave, startWait, triggered, infoInProgress, resp, lastCheck,
                 storeVars, splitVars, cancelVars, appVars>>

\* the caller's context is cancelled while the waiter polls (the process is
\* asked to shut down): triggerAndWaitForSave(redis) takes no signal and
\* sleep() is a bare setTimeout, so nothing of the call changes
CallerCancels ==
  /\ wpc \in {"check", "poll", "sleep"}
  /\ ~cancelled
  /\ cancelled' = TRUE
  /\ UNCHANGED <<polledAfterCancel, storeVars, waiterVars, splitVars, appVars>>

(***************************************************************************)
(* RedisBackupStrategy.backup (src/strategies/backup/redis.ts:48-117).     *)
(***************************************************************************)
\* faulty variant of AfterWaiter: the waiter's error is swallowed
AfterWaiterAlways(outcome) == "copy"

\* await this.triggerAndWaitForSave(redis): a return goes on to copyFile, a
\* throw leaves the try block
AfterWaiter(outcome) == IF outcome = "Completed" THEN "copy" ELSE "rejected"

(***************************************************************************)
(* Paths as texts, extname of node:path (POSIX) and validateRdbPath        *)
(* (src/strategies/backup/redis.ts:12-25).                                 *)
(***************************************************************************)
PlainPath == <<"d", ".", "r", "d", "b">>

UpperPath == <<"d", ".", "R", "D", "B">>

SlashPath == <<"d", ".", "r", "d", "b", "/">>

TextPath == <<"d", ".", "t", "x", "t">>

ParentPath == <<".", ".", "/", "d", ".", "r", "d", "b">>

DotsPath == <<"d", ".", ".", "r", "d", "b">>

HiddenPath == <<".", "r", "d", "b">>

BarePath == <<"d">>

BelowParentPath == <<"d", ".", "r", "d", "b", "/", ".", ".">>

\* the path texts a configuration or a server may give
RdbPaths ==
  {PlainPath, UpperPath, SlashPath, TextPath, ParentPath, DotsPath, HiddenPath, BarePath,
   BelowParentPath}

\* rdbPath before it is assigned
NoPath == <<"undefined">>

\* one character of String.prototype.toLowerCase()
LowerChar(ch) ==
  CASE ch = "R" -> "r" [] ch = "D" -> "d" [] ch = "B" -> "b" [] OTHER -> ch

ToLowerCase(t) == [i \in 1..Len(t) |-> LowerChar(t[i])]

\* the greatest of a set of positions, or 0
LastPos(I) == IF I = {} THEN 0 ELSE CHOOSE i \in I : \A j \in I : j <= i

\* extname(path): of the last component of the path, trailing slashes
\* left out, the text from its last dot on; empty when the component has no
\* dot, begins with its only dot, or is ".."
Extname(path) ==
  LET e == LastPos({i \in 1..Len(path) : path[i] # "/"})
      s == LastPos({i \in 1..e : path[i] = "/"}) + 1
      d == LastPos({i \in s..e : path[i] = "."})
  IN IF e = 0 \/ d = 0 \/ d = s \/ (path[s] = "." /\ d = e /\ d = s + 1) THEN <<>>
     ELSE SubSeq(path, d, e)

\* rdbPath.includes('..')
IncludesDotDot(path) == \E i \in 1..(Len(path) - 1) : path[i] = "." /\ path[i + 1] = "."

\* faulty variant of ValidRdbPath: the test for '..' is left out
ValidRdbPathAnyDots(path) == ToLowerCase(Extname(path)) = <<".", "r", "d", "b">>

\* validateRdbPath(rdbPath) returns without throwing
ValidRdbPath(path) ==
  /\ ToLowerCase(Extname(path)) = <<".", "r", "d", "b">>
  /\ ~IncludesDotDot(path)

\* validatedConfig.rdbPath when it is not empty, or else what CONFIG GET
\* dir and dbfilename give, joined (the empty text when one is missing)
PathInputs ==
  { [from |-> "config", text |-> t] : t \in RdbPaths }
    \cup { [from |-> "store", text |-> t] : t \in RdbPaths \cup {<<>>} }

DefaultPathInput == [from |-> "store", text |-> PlainPath]

(***************************************************************************)
(* RedisBackupStrategy.backup, its steps.                                  *)
(***************************************************************************)
\* configSchema.parse, import('ioredis') and new Redis(options); a throw of
\* the first two leaves backup before a connection is made
BackupCall ==
  /\ bpc = "idle"
  /\ \E o \in {"ok", "schema", "import"} :
       CASE o = "ok" -> bpc' = "ready" /\ connected' = TRUE /\ UNCHANGED backupError
         [] o = "schema" ->
              bpc' = "rejected" /\ backupError' = "Error" /\ UNCHANGED connected
         [] o = "import" ->
              bpc' = "rejected" /\ backupError' = "BackupError" /\ UNCHANGED connected
  /\ UNCHANGED <<outputFile, pathInput, rdbPath, splitVars, redisVars, deliverVars,
                 managerVars, registryVars>>

\* await this.waitForReady(redis): ready, or an error or the connect
\* timeout, after which finally disconnects
BackupReady ==
  /\ bpc = "ready"
  /\ \E ok \in BOOLEAN :
       IF ok THEN bpc' = "path" /\ UNCHANGED <<connected, backupError>>
       ELSE bpc' = "rejected" /\ connected' = FALSE /\ backupError' = "BackupError"
  /\ UNCHANGED <<outputFile, pathInput, rdbPath, splitVars, redisVars, deliverVars,
                 managerVars, registryVars>>

\* rdbPath from the configuration or discoverRdbPath, validateRdbPath, and
\* the call of triggerAndWaitForSave; a rejected CONFIG GET, no path or an
\* invalid path throws
BackupPath ==
  /\ bpc = "path"
  /\ \E answered \in BOOLEAN :
       IF pathInput.from = "store" /\ ~answered
       THEN /\ bpc' = "rejected"
            /\ backupError' = "Error"
            /\ connected' = FALSE
            /\ UNCHANGED <<rdbPath, redisVars>>
       ELSE IF pathInput.text = <<>>
       THEN /\ bpc' = "rejected"
            /\ backupError' = "BackupError"
            /\ connected' = FALSE
            /\ UNCHANGED <<rdbPath, redisVars>>
       ELSE /\ rdbPath' = pathInput.text
            /\ IF ValidRdbPath(pathInput.text)
               THEN /\ bpc' = "wait"
                    /\ WaiterEntry
                    /\ UNCHANGED <<connected, backupError>>
               ELSE /\ bpc' = "rejected"
                    /\ backupError' = "BackupError"
                    /\ connected' = FALSE
                    /\ UNCHANGED redisVars
  /\ UNCHANGED <<outputFile, pathInput, splitVars, deliverVars, managerVars, registryVars>>

\* triggerAndWaitForSave returns or throws
BackupSaved ==
  /\ bpc = "wait"
  /\ wpc \in Terminal
  /\ bpc' = AfterWaiter(wpc)
  /\ connected' = (AfterWaiter(wpc) # "rejected")
  /\ backupError' = IF AfterWaiter(wpc) # "rejected" THEN backupError
                    ELSE IF wpc \in {"Failed", "TimedOut"} THEN "BackupError"
                    ELSE "Error"
  /\ UNCHANGED <<outputFile, pathInput, rdbPath, splitVars, redisVars, deliverVars,
                 managerVars, registryVars>>

\* generateTempPath and await copyFile(rdbPath, outputPath)
BackupCopy ==
  /\ bpc = "copy"
  /\ \E ok \in BOOLEAN :
       IF ok THEN bpc' = "compress" /\ outputFile' = "copy" /\ UNCHANGED <<connected, backupError>>
       ELSE /\ bpc' = "rejected" /\ connected' = FALSE /\ backupError' = "Error"
            /\ UNCHANGED outputFile
  /\ UNCHANGED <<pathInput, rdbPath, splitVars, redisVars, deliverVars, managerVars,
                 registryVars>>

\* await maybeCompress(outputPath, validatedConfig.compress), the return of
\* the BackupResult and finally
BackupCompress ==
  /\ bpc = "compress"
  /\ \E ok \in BOOLEAN :
       IF ok THEN bpc' = "returned" /\ outputFile' \in {"copy", "gz"} /\ UNCHANGED backupError
       ELSE bpc' = "rejected" /\ backupError' = "Error" /\ UNCHANGED outputFile
  /\ connected' = FALSE
  /\ UNCHANGED <<pathInput, rdbPath, splitVars, redisVars, deliverVars, managerVars,
                 registryVars>>

(***************************************************************************)
(* DiscordDeliveryStrategy.deliver (src/strategies/delivery/discord.ts:    *)
(* 31-77); TelegramDeliveryStrategy.deliver (telegram.ts:42-88) takes the  *)
(* same steps with sendDocument for sendFile.                              *)
(***************************************************************************)
\* this.maxFileSizeBytes: 25 MiB for Discord and 50 MiB for Telegram, here
\* in the scale of the model's files
MaxFileSizes == SizeSet \ {0}

SendEvent(k, ok) == [op |-> "send", k |-> k, ok |-> ok]

RemoveEvent(k, ok) == [op |-> "remove", k |-> k, ok |-> ok]

\* const isMultiPart = chunks.length > 1
IsMultiPart == Len(chunks) > 1

\* faulty variant of AfterSend: the chunk is removed whether or not it was sent
AfterSendRemoveAlways(ok, multi) ==
  IF multi THEN "remove" ELSE IF ok THEN "next" ELSE "caught"

\* after await this.sendFile(...): a throw goes to the catch block; a
\* chunk that was sent is removed if (isMultiPart)
AfterSend(ok, multi) ==
  IF ~ok THEN "caught" ELSE IF multi THEN "remove" ELSE "next"

\* this.configSchema.parse(config), outside the try block, and the call of
\* splitFile(backup.filePath, this.maxFileSizeBytes)
DeliverCall(T) ==
  /\ dpc = "idle"
  /\ spc = "idle"
  /\ \E valid \in BOOLEAN :
       IF valid THEN dpc' = "split" /\ SplitEntry(T)
       ELSE dpc' = "rejected" /\ UNCHANGED splitVars
  /\ UNCHANGED <<di, dresult, dlog, redisVars, backupVars, managerVars, registryVars>>

\* faulty variant of DeliverSplit: the error of splitFile leaves deliver
DeliverSplitRethrows ==
  /\ dpc = "split"
  /\ spc \in {"done", "error"}
  /\ IF spc = "done"
     THEN dpc' = "loop" /\ di' = 0 /\ UNCHANGED dresult
     ELSE dpc' = "rejected" /\ UNCHANGED <<di, dresult>>
  /\ UNCHANGED <<dlog, splitVars, redisVars, backupVars, managerVars, registryVars>>

\* splitFile returns the chunks, or throws into the catch block
DeliverSplit ==
  /\ dpc = "split"
  /\ spc \in {"done", "error"}
  /\ IF spc = "done"
     THEN dpc' = "loop" /\ di' = 0 /\ UNCHANGED dresult
     ELSE dpc' = "returned" /\ dresult' = "failure" /\ UNCHANGED di
  /\ UNCHANGED <<dlog, splitVars, redisVars, backupVars, managerVars, registryVars>>

\* for (let i = 0; i < chunks.length; i++), or the return of success
DeliverLoop ==
  /\ dpc = "loop"
  /\ IF di < Len(chunks)
     THEN dpc' = "send" /\ UNCHANGED dresult
     ELSE dpc' = "returned" /\ dresult' = "success"
  /\ UNCHANGED <<di, dlog, splitVars, redisVars, backupVars, managerVars, registryVars>>

\* await this.sendFile(validatedConfig, chunkPath, embed): readFileAsBlob
\* and the POST, which throw on a missing file or a response that is not ok
DeliverSend ==
  /\ dpc = "send"
  /\ \E ok \in BOOLEAN :
       /\ ok => fs[chunks[di + 1]] # NoFile
       /\ dlog' = Append(dlog, SendEvent(di + 1, ok))
       /\ LET to == AfterSend(ok, IsMultiPart) IN
          /\ dpc' = CASE to = "caught" -> "returned"
                      [] to = "remove" -> "remove"
                      [] to = "next" -> "loop"
          /\ dresult' = IF to = "caught" THEN "failure" ELSE dresult
          /\ di' = IF to = "next" THEN di + 1 ELSE di
  /\ UNCHANGED <<splitVars, redisVars, backupVars, managerVars, registryVars>>

\* await removeFile(chunkPath): rm with force, its errors swallowed; i++
DeliverRemove ==
  /\ dpc = "remove"
  /\ \E removed \in BOOLEAN :
       /\ fs' = IF removed THEN [fs EXCEPT ![chunks[di + 1]] = NoFile] ELSE fs
       /\ dlog' = Append(dlog, RemoveEvent(di + 1, removed))
  /\ di' = di + 1
  /\ dpc' = "loop"
  /\ UNCHANGED <<spc, maxSizeBytes, fileSize, numChunks, idx, bytesWritten, chunks,
                 handleOpen, entryFs, srcChanged, opened, shortReads, prev,
                 dresult, redisVars, backupVars, managerVars, registryVars>>

(***************************************************************************)
(* BackupManager (src/manager.ts), with the strategies the registry hands  *)
(* out seen through their interface: backup, deliver and cleanup resolve   *)
(* or reject. The progress callback is taken to return.                    *)
(***************************************************************************)
\* the errors a strategy or a callback may reject with: a BackupError of a
\* phase, or another error
Errors ==
  { [isBackupError |-> TRUE, phase |-> ph] : ph \in {"backup", "delivery", "cleanup"} }
    \cup { [isBackupError |-> FALSE, phase |-> "none"] }

NoError == [isBackupError |-> FALSE, phase |-> "nothing"]

\* an Error that is no BackupError: a ZodError, new Error(...)
PlainError == [isBackupError |-> FALSE, phase |-> "none"]

\* new BackupError(deliveryResult.error ?? 'Delivery failed', 'delivery')
DeliveryFailed == [isBackupError |-> TRUE, phase |-> "delivery"]

\* const phase = error instanceof BackupError ? error.phase : 'backup'
PhaseOf(e) == IF e.isBackupError THEN e.phase ELSE "backup"

ProgressEvent(phase) == [ev |-> "progress", arg |-> phase]

CallEvent(what) == [ev |-> "call", arg |-> what]

SettleEvent(what) == [ev |-> "settled", arg |-> what]

\* faulty variant of DeliverySucceeded: the result's success flag is not read
DeliverySucceededAlways(success) == TRUE

\* if (!deliveryResult.success) throw
DeliverySucceeded(success) == success

\* faulty variant of CleanupOnError: retainBackup is not consulted
CleanupOnErrorAlways(hasResult, retain) == hasResult

\* if (backupResult && !this.shouldRetainBackup)
CleanupOnError(hasResult, retain) == hasResult /\ ~retain

\* database(type, config)
ManagerDatabase ==
  /\ mpc = "idle"
  /\ databaseConfig' = TRUE
  /\ UNCHANGED <<rejection, mpc, deliveryConfig, shouldRetainBackup, onSuccessCallback,
                 onErrorCallback, backupResult, caught, mlog, splitVars, redisVars,
                 backupVars, deliverVars, registryVars>>

\* delivery(type, config)
ManagerDelivery ==
  /\ mpc = "idle"
  /\ deliveryConfig' = TRUE
  /\ UNCHANGED <<rejection, mpc, databaseConfig, shouldRetainBackup, onSuccessCallback,
                 onErrorCallback, backupResult, caught, mlog, splitVars, redisVars,
                 backupVars, deliverVars, registryVars>>

\* retainBackup(enabled)
ManagerRetainBackup(enabled) ==
  /\ mpc = "idle"
  /\ shouldRetainBackup' = enabled
  /\ UNCHANGED <<rejection, mpc, databaseConfig, deliveryConfig, onSuccessCallback,
                 onErrorCallback, backupResult, caught, mlog, splitVars, redisVars,
                 backupVars, deliverVars, registryVars>>

\* onSuccess(callback)
ManagerOnSuccess ==
  /\ mpc = "idle"
  /\ onSuccessCallback' = TRUE
  /\ UNCHANGED <<rejection, mpc, databaseConfig, deliveryConfig, shouldRetainBackup,
                 onErrorCallback, backupResult, caught, mlog, splitVars, redisVars,
                 backupVars, deliverVars, registryVars>>

\* onError(callback)
ManagerOnError ==
  /\ mpc = "idle"
  /\ onErrorCallback' = TRUE
  /\ UNCHANGED <<rejection, mpc, databaseConfig, deliveryConfig, shouldRetainBackup,
                 onSuccessCallback, backupResult, caught, mlog, splitVars, redisVars,
                 backupVars, deliverVars, registryVars>>

\* run() up to await backupStrategy.backup(...): a missing configuration or
\* an unregistered strategy throws before the try block; inside it, the
\* first progress event, configSchema.parse and the call of backup
ManagerRun ==
  /\ mpc = "idle"
  /\ IF ~databaseConfig \/ ~deliveryConfig
     THEN /\ mpc' = "rejected"
          /\ rejection' = PlainError
          /\ UNCHANGED <<caught, mlog>>
     ELSE \E o \in {"unregistered", "invalid", "valid"} :
            CASE o = "unregistered" ->
                   /\ mpc' = "rejected"
                   /\ rejection' = PlainError
                   /\ UNCHANGED <<caught, mlog>>
              [] o = "invalid" ->
                   /\ mpc' = "catch"
                   /\ caught' = PlainError
                   /\ mlog' = Append(mlog, ProgressEvent("backup"))
                   /\ UNCHANGED rejection
              [] o = "valid" ->
                   /\ mpc' = "backup"
                   /\ mlog' = mlog \o <<ProgressEvent("backup"), CallEvent("backup")>>
                   /\ UNCHANGED <<caught, rejection>>
  /\ UNCHANGED <<databaseConfig, deliveryConfig, shouldRetainBackup, onSuccessCallback,
                 onErrorCallback, backupResult, splitVars, redisVars, backupVars, deliverVars,
                 registryVars>>

\* backupResult = await backupStrategy.backup(...), the two progress
\* events, configSchema.parse and the call of deliver
ManagerBackupSettles ==
  /\ mpc = "backup"
  /\ \/ /\ backupResult' = TRUE
        /\ \E valid \in BOOLEAN :
             IF valid
             THEN /\ mpc' = "deliver"
                  /\ mlog' = mlog \o <<SettleEvent("backup"), ProgressEvent("backup"),
                                       ProgressEvent("delivery"), CallEvent("deliver")>>
                  /\ UNCHANGED caught
             ELSE /\ mpc' = "catch"
                  /\ caught' = PlainError
                  /\ mlog' = mlog \o <<SettleEvent("backup"), ProgressEvent("backup"),
                                       ProgressEvent("delivery")>>
     \/ /\ \E e \in Errors : caught' = e
        /\ mpc' = "catch"
        /\ UNCHANGED <<backupResult, mlog>>
  /\ UNCHANGED <<rejection, databaseConfig, deliveryConfig, shouldRetainBackup,
                 onSuccessCallback, onErrorCallback, splitVars, redisVars, backupVars,
                 deliverVars, registryVars>>

\* deliver resolved with a result: the test of its success flag, the
\* progress event and the cleanup phase up to
\* await backupStrategy.cleanup(backupResult.filePath)
DeliverResolves(success) ==
  LET settled ==
        Append(mlog, SettleEvent(IF success THEN "deliver:success" ELSE "deliver:failure"))
  IN IF DeliverySucceeded(success)
     THEN /\ mlog' = settled \o <<ProgressEvent("delivery")>>
                       \o (IF shouldRetainBackup THEN <<>>
                           ELSE <<ProgressEvent("cleanup"), CallEvent("cleanup")>>)
          /\ mpc' = IF shouldRetainBackup THEN "success" ELSE "cleanup"
          /\ UNCHANGED caught
     ELSE /\ mlog' = settled
          /\ mpc' = "catch"
          /\ caught' = DeliveryFailed

\* deliver rejected
DeliverRejects(e) ==
  /\ caught' = e
  /\ mpc' = "catch"
  /\ UNCHANGED mlog

\* const deliveryResult = await deliveryStrategy.deliver(...) and what
\* follows it, for a strategy that resolves or rejects
ManagerDeliverSettles ==
  /\ mpc = "deliver"
  /\ \/ \E success \in BOOLEAN : DeliverResolves(success)
     \/ \E e \in Errors : DeliverRejects(e)
  /\ UNCHANGED <<rejection, databaseConfig, deliveryConfig, shouldRetainBackup,
                 onSuccessCallback, onErrorCallback, backupResult, splitVars, redisVars,
                 backupVars, deliverVars, registryVars>>

\* faulty variant of CleanupRemoves: cleanup removes the parts of the file, too
CleanupRemovesParts ==
  fs' = [p \in DOMAIN fs |-> NoFile]

\* what cleanup(filePath) does to the file: removeFile, which removes it or
\* fails without a word
CleanupRemoves ==
  \E removed \in BOOLEAN :
    fs' = IF removed THEN [fs EXCEPT ![SourcePath] = NoFile] ELSE fs

\* await backupStrategy.cleanup(...) of the cleanup phase and its second
\* progress event
ManagerCleanupSettles ==
  /\ mpc = "cleanup"
  /\ \/ /\ CleanupRemoves
        /\ mlog' = mlog \o <<SettleEvent("cleanup"), ProgressEvent("cleanup")>>
        /\ mpc' = "success"
        /\ UNCHANGED caught
     \/ /\ \E e \in Errors : caught' = e
        /\ mpc' = "catch"
        /\ UNCHANGED <<mlog, fs>>
  /\ UNCHANGED <<rejection, databaseConfig, deliveryConfig, shouldRetainBackup,
                 onSuccessCallback, onErrorCallback, backupResult, splitCall, redisVars,
                 backupVars, deliverVars, registryVars>>

\* await this.onSuccessCallback?.(result); return result
ManagerSuccess ==
  /\ mpc = "success"
  /\ IF onSuccessCallback
     THEN /\ mlog' = Append(mlog, CallEvent("onSuccess"))
          /\ \/ mpc' = "resolved" /\ UNCHANGED caught
             \/ mpc' = "catch" /\ \E e \in Errors : caught' = e
     ELSE mpc' = "resolved" /\ UNCHANGED <<caught, mlog>>
  /\ UNCHANGED <<rejection, databaseConfig, deliveryConfig, shouldRetainBackup,
                 onSuccessCallback, onErrorCallback, backupResult, splitVars, redisVars,
                 backupVars, deliverVars, registryVars>>

\* the catch block up to the error callback: the cleanup attempt, whose
\* rejection is swallowed
ManagerCatch ==
  /\ mpc = "catch"
  /\ IF CleanupOnError(backupResult, shouldRetainBackup)
     THEN /\ mlog' = Append(mlog, CallEvent("cleanupOnError"))
          /\ CleanupRemoves
     ELSE UNCHANGED <<mlog, fs>>
  /\ mpc' = "onError"
  /\ UNCHANGED <<rejection, databaseConfig, deliveryConfig, shouldRetainBackup,
                 onSuccessCallback, onErrorCallback, backupResult, caught, splitCall,
                 redisVars, backupVars, deliverVars, registryVars>>

\* if (this.onErrorCallback) await this.onErrorCallback(err, phase);
\* throw error: run rejects with the error caught, or with what the
\* callback throws
ManagerRethrow ==
  /\ mpc = "onError"
  /\ IF onErrorCallback
     THEN /\ mlog' = Append(mlog, [ev |-> "onError", arg |-> PhaseOf(caught)])
          /\ \/ rejection' = caught
             \/ \E e \in Errors : rejection' = e
     ELSE /\ rejection' = caught
          /\ UNCHANGED mlog
  /\ mpc' = "rejected"
  /\ UNCHANGED <<databaseConfig, deliveryConfig, shouldRetainBackup, onSuccessCallback,
                 onErrorCallback, backupResult, caught, splitVars, redisVars, backupVars,
                 deliverVars, registryVars>>

(***************************************************************************)
(* BackupManager.run with a delivery strategy of this package: deliver is  *)
(* the call modelled above, on the backup file at SourcePath.              *)
(***************************************************************************)
\* await deliveryStrategy.deliver(validatedDeliveryConfig, backupResult):
\* the call
RunDeliverCall(T) == mpc = "deliver" /\ DeliverCall(T)

\* the same await: deliver has returned its result, or has thrown the
\* error of its configSchema.parse
RunDeliverSettles ==
  /\ mpc = "deliver"
  /\ dpc \in {"returned", "rejected"}
  /\ IF dpc = "returned" THEN DeliverResolves(dresult = "success")
     ELSE DeliverRejects(PlainError)
  /\ UNCHANGED <<rejection, databaseConfig, deliveryConfig, shouldRetainBackup,
                 onSuccessCallback, onErrorCallback, backupResult, splitVars, redisVars,
                 backupVars, deliverVars, registryVars>>

(***************************************************************************)
(* Registry (src/registry.ts). A Map is the sequence of its entries in     *)
(* insertion order, each key once.                                         *)
(***************************************************************************)
\* bound of the registry model: the number of strategy names in use
MaxNames == 2

NameList == <<"mock", "redis", "discord", "telegram">>

StrategyNames == { NameList[i] : i \in 1..MaxNames }

\* the factories a caller may register
Factories == {"createFirst", "createOther"}

Entry(name, factory) == [name |-> name, factory |-> factory]

\* map.has(name)
MapHas(map, name) == \E i \in 1..Len(map) : map[i].name = name

\* map.get(name), or "undefined"
MapGet(map, name) ==
  IF MapHas(map, name)
  THEN map[CHOOSE i \in 1..Len(map) : map[i].name = name].factory
  ELSE "undefined"

\* map.set(name, factory): a new key goes to the end, a known key keeps
\* its place and takes the new value
MapSet(map, name, factory) ==
  IF \E i \in 1..Len(map) : map[i].name = name
  THEN [i \in 1..Len(map) |-> IF map[i].name = name THEN Entry(name, factory) ELSE map[i]]
  ELSE Append(map, Entry(name, factory))

\* Array.from(map.keys()): listBackupStrategies, listDeliveryStrategies
MapKeys(map) == [i \in 1..Len(map) |-> map[i].name]

\* faulty variant of AlreadyRegistered: a known name is registered again
AlreadyRegisteredNever(map, name) == FALSE

\* if (this.backupStrategies.has(name)) throw, and the same for delivery
AlreadyRegistered(map, name) == MapHas(map, name)

NoRegister ==
  [kind |-> "none", name |-> "", factory |-> "", threw |-> FALSE,
   backup |-> <<>>, delivery |-> <<>>]

\* what a register call leaves in the history
Registered(kind, name, factory, threw) ==
  [kind |-> kind, name |-> name, factory |-> factory, threw |-> threw,
   backup |-> backupStrategies, delivery |-> deliveryStrategies]

\* registerBackup(name, factory)
RegisterBackup(name, factory) ==
  /\ IF AlreadyRegistered(backupStrategies, name)
     THEN /\ lastRegister' = Registered("backup", name, factory, TRUE)
          /\ UNCHANGED backupStrategies
     ELSE /\ lastRegister' = Registered("backup", name, factory, FALSE)
          /\ backupStrategies' = MapSet(backupStrategies, name, factory)
  /\ UNCHANGED <<deliveryStrategies, splitVars, redisVars, backupVars, deliverVars,
                 managerVars>>

\* registerDelivery(name, factory)
RegisterDelivery(name, factory) ==
  /\ IF AlreadyRegistered(deliveryStrategies, name)
     THEN /\ lastRegister' = Registered("delivery", name, factory, TRUE)
          /\ UNCHANGED deliveryStrategies
     ELSE /\ lastRegister' = Registered("delivery", name, factory, FALSE)
          /\ deliveryStrategies' = MapSet(deliveryStrategies, name, factory)
  /\ UNCHANGED <<backupStrategies, splitVars, redisVars, backupVars, deliverVars,
                 managerVars>>

(***************************************************************************)
(* Initial states and specifications.                                      *)
(***************************************************************************)
SplitInit ==
  /\ \E n \in SizeSet : fs = [p \in Paths |-> IF p = SourcePath THEN Original(p, n) ELSE NoFile]
  /\ spc = "idle"
  /\ maxSizeBytes = 1
  /\ fileSize = 0
  /\ numChunks = 0
  /\ idx = 0
  /\ bytesWritten = 0
  /\ chunks = <<>>
  /\ handleOpen = FALSE
  /\ entryFs = fs
  /\ srcChanged = FALSE
  /\ opened = <<>>
  /\ shortReads = 0
  /\ prev = NoPrev

\* no backup, delivery or run has been called; a new BackupManager has its
\* fields' initial values
BackupIdle ==
  /\ bpc = "idle"
  /\ connected = FALSE
  /\ outputFile = "none"
  /\ pathInput \in PathInputs
  /\ rdbPath = NoPath
  /\ backupError = "none"

DeliverIdle == dpc = "idle" /\ di = 0 /\ dresult = "none" /\ dlog = <<>>

ManagerIdle ==
  /\ mpc = "idle"
  /\ databaseConfig = FALSE
  /\ deliveryConfig = FALSE
  /\ shouldRetainBackup = FALSE
  /\ onSuccessCallback = FALSE
  /\ onErrorCallback = FALSE
  /\ backupResult = FALSE
  /\ caught = NoError
  /\ rejection = NoError
  /\ mlog = <<>>

\* new Registry(): both maps empty
RegistryIdle ==
  backupStrategies = <<>> /\ deliveryStrategies = <<>> /\ lastRegister = NoRegister

AppInit == BackupIdle /\ DeliverIdle /\ ManagerIdle /\ RegistryIdle

RedisInit ==
  /\ rdbLastSaveTime = BaseToken
  /\ infoFormat \in {"standard", "free"}
  /\ bgsaveInProgress \in BOOLEAN
  /\ lastBgsaveStatus \in {"ok", "err"}
  /\ wpc = "idle"
  /\ lastSave = 0
  /\ now = 0
  /\ startWait = 0
  /\ triggered = FALSE
  /\ infoInProgress = FALSE
  /\ sent = "none"
  /\ resp = NoResp
  /\ lastCheck = 0
  /\ cancelled = FALSE
  /\ polledAfterCancel = FALSE

SplitNext ==
  \/ \E T \in SizeSet \ {0} : SplitBegin(T)
  \/ SplitLoop
  \/ SplitCopy
  \/ SplitEnd
  \/ SplitIOError
  \/ EnvShrink

\* splitFile alone, beside a store nobody uses
SplitAloneInit ==
  /\ SplitInit /\ RedisInit /\ AppInit
  /\ ~bgsaveInProgress /\ lastBgsaveStatus = "ok" /\ infoFormat = "standard"
  /\ pathInput = DefaultPathInput

SplitSpec == SplitAloneInit /\ [][SplitNext]_vars

WaiterStep ==
  \/ WaiterCall
  \/ WaiterLastSave
  \/ WaiterInfo
  \/ WaiterBgsave
  \/ WaiterCheck
  \/ WaiterPoll
  \/ WaiterSleep

WaiterNext ==
  \/ WaiterStep
  \/ WaiterCommandError
  \/ StoreSaveSucceeds
  \/ StoreSaveFails
  \/ StoreOtherSave

\* a store of either state beside an empty backup file nobody splits
StoreInit == RedisInit /\ SplitInit /\ AppInit /\ fs[SourcePath] = <<>>

\* the waiter alone
WaiterInit == StoreInit /\ infoFormat = "standard" /\ pathInput = DefaultPathInput

WaiterSpec == WaiterInit /\ [][WaiterNext]_vars

\* every awaited command is answered and every timer fires
WaiterFairSpec == WaiterSpec /\ WF_vars(WaiterStep)

\* the waiter beside a caller whose context can be cancelled
CancelNext ==
  \/ WaiterCall
  \/ WaiterLastSave
  \/ WaiterInfo
  \/ WaiterBgsave
  \/ WaiterCheck
  \/ WaiterPoll
  \/ WaiterSleep
  \/ WaiterCommandError
  \/ StoreSaveSucceeds
  \/ StoreSaveFails
  \/ StoreOtherSave
  \/ CallerCancels

CancelInit == WaiterInit

CancelSpec == CancelInit /\ [][CancelNext]_vars

\* the waiter beside a server that writes INFO fields in its own way
LenientInit == StoreInit /\ infoFormat = "free" /\ pathInput = DefaultPathInput

LenientSpec == LenientInit /\ [][WaiterNext]_vars

\* RedisBackupStrategy.backup with its waiter, beside the store
BackupNext ==
  \/ BackupCall
  \/ BackupReady
  \/ BackupPath
  \/ WaiterLastSave
  \/ WaiterInfo
  \/ WaiterBgsave
  \/ WaiterCheck
  \/ WaiterPoll
  \/ WaiterSleep
  \/ WaiterCommandError
  \/ StoreSaveSucceeds
  \/ StoreSaveFails
  \/ StoreOtherSave
  \/ BackupSaved
  \/ BackupCopy
  \/ BackupCompress

\* the snapshot path is the server's, or a configured path that is not a
\* snapshot's
BackupInit ==
  /\ StoreInit
  /\ infoFormat = "standard"
  /\ pathInput \in {DefaultPathInput, [from |-> "config", text |-> TextPath]}

\* backup with any snapshot path, followed until its waiter ends at the
\* first poll or goes to sleep after it
PathNext ==
  \/ BackupCall
  \/ BackupReady
  \/ BackupPath
  \/ WaiterLastSave
  \/ WaiterInfo
  \/ WaiterBgsave
  \/ WaiterCheck
  \/ WaiterPoll
  \/ WaiterCommandError
  \/ StoreSaveSucceeds
  \/ StoreSaveFails
  \/ StoreOtherSave
  \/ BackupSaved
  \/ BackupCopy
  \/ BackupCompress

PathInit == StoreInit /\ infoFormat = "standard"

PathSpec == PathInit /\ [][PathNext]_vars

BackupSpec == BackupInit /\ [][BackupNext]_vars

\* deliver with its splitFile call, on a backup file of any size
DeliverNext ==
  \/ \E T \in MaxFileSizes : DeliverCall(T)
  \/ SplitLoop
  \/ SplitCopy
  \/ SplitEnd
  \/ SplitIOError
  \/ EnvShrink
  \/ DeliverSplit
  \/ DeliverLoop
  \/ DeliverSend
  \/ DeliverRemove

DeliverInit == SplitAloneInit

DeliverSpec == DeliverInit /\ [][DeliverNext]_vars

\* a BackupManager from its construction on
ManagerNext ==
  \/ ManagerDatabase
  \/ ManagerDelivery
  \/ \E enabled \in BOOLEAN : ManagerRetainBackup(enabled)
  \/ ManagerOnSuccess
  \/ ManagerOnError
  \/ ManagerRun
  \/ ManagerBackupSettles
  \/ ManagerDeliverSettles
  \/ ManagerCleanupSettles
  \/ ManagerSuccess
  \/ ManagerCatch
  \/ ManagerRethrow

ManagerInit == SplitAloneInit /\ fs[SourcePath] = <<>>

ManagerSpec == ManagerInit /\ [][ManagerNext]_vars

\* run of a BackupManager whose delivery strategy is Discord's or Telegram's
RunNext ==
  \/ ManagerRun
  \/ ManagerBackupSettles
  \/ \E T \in MaxFileSizes : RunDeliverCall(T)
  \/ SplitLoop
  \/ SplitCopy
  \/ SplitEnd
  \/ SplitIOError
  \/ EnvShrink
  \/ DeliverSplit
  \/ DeliverLoop
  \/ DeliverSend
  \/ DeliverRemove
  \/ RunDeliverSettles
  \/ ManagerCleanupSettles
  \/ ManagerSuccess
  \/ ManagerCatch
  \/ ManagerRethrow

\* the manager after database(), delivery(), onError() and, for some,
\* retainBackup(true), with a backup file of any size to come
RunInit ==
  /\ SplitInit /\ RedisInit
  /\ ~bgsaveInProgress /\ lastBgsaveStatus = "ok" /\ infoFormat = "standard"
  /\ BackupIdle /\ pathInput = DefaultPathInput
  /\ DeliverIdle
  /\ RegistryIdle
  /\ mpc = "idle"
  /\ databaseConfig = TRUE
  /\ deliveryConfig = TRUE
  /\ shouldRetainBackup \in BOOLEAN
  /\ onSuccessCallback = FALSE
  /\ onErrorCallback = TRUE
  /\ backupResult = FALSE
  /\ caught = NoError
  /\ rejection = NoError
  /\ mlog = <<>>

RunSpec == RunInit /\ [][RunNext]_vars

\* a Registry from its construction on
RegistryNext ==
  \/ \E name \in StrategyNames, factory \in Factories : RegisterBackup(name, factory)
  \/ \E name \in StrategyNames, factory \in Factories : RegisterDelivery(name, factory)

RegistryInit == SplitAloneInit /\ fs[SourcePath] = <<>>

RegistrySpec == RegistryInit /\ [][RegistryNext]_vars

(***************************************************************************)
(* Properties of splitFile.                                                *)
(***************************************************************************)
\* the call returned on the split path
SplitDone == spc = "done" /\ fileSize > maxSizeBytes

\* the bytes [(k-1)*T, min(k*T, F)) of the source, as a file content
SourceRange(k) ==
  << <<SourcePath, (k - 1) * maxSizeBytes,
       Min(k * maxSizeBytes, fileSize) - (k - 1) * maxSizeBytes>> >>

\* C1: for every file size F and threshold T > 0 with F <= T (F = T and
\* F = 0 included) splitFile returns exactly <<sourcePath>> and leaves the
\* file system as it found it: no file created, copied or renamed.
C1_FastPathReturnsSource ==
  (spc = "done" /\ fileSize <= maxSizeBytes)
    => (chunks = <<SourcePath>> /\ opened = <<>> /\ fs = entryFs)

C1_Witness ==
  /\ spc = "done"
  /\ fileSize = maxSizeBytes
  /\ chunks = <<SourcePath>>
  /\ fileSize = 2 * BUFFER_SIZE + 1
  /\ prev.kind = "done" /\ prev.size > prev.T
  /\ fs[ChunkPath(SourcePath, 1)] # NoFile

\* C2: for F > T and a source that does not change during the call,
\* splitFile returns exactly ceil(F/T) paths; the chunk lengths sum to F,
\* every chunk but the last has length T and the last has length
\* F - (ceil(F/T) - 1) * T.
C2_ChunkCountAndLengths ==
  (SplitDone /\ ~srcChanged) =>
    LET N == Len(chunks) IN
    /\ (N - 1) * maxSizeBytes < fileSize
    /\ fileSize <= N * maxSizeBytes
    /\ \A k \in 1..N :
         /\ fs[chunks[k]] # NoFile
         /\ Size(fs[chunks[k]]) = IF k < N THEN maxSizeBytes
                                  ELSE fileSize - (N - 1) * maxSizeBytes
    /\ Size(ConcatFiles(fs, chunks)) = fileSize

C2_Witness ==
  /\ SplitDone /\ ~srcChanged
  /\ Len(chunks) = 3
  /\ maxSizeBytes = BUFFER_SIZE
  /\ Size(fs[chunks[1]]) = BUFFER_SIZE
  /\ Size(fs[chunks[3]]) = 2
  /\ shortReads = 1

\* C3: for a source that does not change during the call, chunk i holds
\* exactly the source bytes [i*T, min((i+1)*T, F)): the chunks cover [0, F)
\* once, in order, without gap or overlap, and their concatenation in the
\* returned order is the source byte for byte.
C3_ChunksCoverSource ==
  (SplitDone /\ ~srcChanged) =>
    /\ \A k \in 1..Len(chunks) : fs[chunks[k]] = SourceRange(k)
    /\ ConcatFiles(fs, chunks) = entryFs[SourcePath]
    /\ fs[SourcePath] = ConcatFiles(fs, chunks)

C3_Witness ==
  /\ SplitDone /\ ~srcChanged
  /\ Len(chunks) = 2
  /\ maxSizeBytes = BUFFER_SIZE + 1
  /\ fs[chunks[2]] = << <<SourcePath, BUFFER_SIZE + 1, BUFFER_SIZE>> >>
  /\ ConcatFiles(fs, chunks) = << <<SourcePath, 0, 2 * BUFFER_SIZE + 1>> >>

\* the previous call returned on the split path, too
PrevSplitDone == prev.kind = "done" /\ prev.size > prev.T

\* the k-th returned path is sourcePath + ".part" + k
PartNames == \A k \in 1..Len(chunks) : chunks[k] = SourcePath \o ".part" \o ToString(k)

\* C4 as stated: on the split path the k-th returned path is
\* sourcePath.part<k>, and two calls on the same source path return the same
\* path sequence, the second overwriting the first call's chunk files.
C4_SamePathSequence ==
  SplitDone =>
    /\ PartNames
    /\ PrevSplitDone =>
         /\ chunks = prev.result
         /\ ~srcChanged =>
              \A k \in 1..Len(prev.result) : fs[prev.result[k]] = SourceRange(k)

\* C4, amended: on the split path the k-th returned path is
\* sourcePath.part<k>; two calls on the same source path return the same
\* path sequence when they compute the same number of chunks (so for the
\* same file size and threshold), and otherwise the shorter sequence is a
\* prefix of the longer; the second call overwrites (does not append to)
\* each of the first call's chunk files whose name it returns.
C4_PartNamesAndOverwrite ==
  SplitDone =>
    /\ PartNames
    /\ PrevSplitDone =>
         /\ \A k \in 1..Min(Len(chunks), Len(prev.result)) : chunks[k] = prev.result[k]
         /\ (prev.size = fileSize /\ prev.T = maxSizeBytes) => chunks = prev.result
         /\ ~srcChanged => \A k \in 1..Len(chunks) : fs[chunks[k]] = SourceRange(k)

C4_Witness ==
  /\ SplitDone /\ PrevSplitDone /\ ~srcChanged
  /\ chunks = prev.result
  /\ Len(chunks) = 2
  /\ prev.T # maxSizeBytes
  /\ entryFs[chunks[2]] # NoFile
  /\ entryFs[chunks[2]] # fs[chunks[2]]

\* C5: splitFile never deletes, renames, truncates or writes the source
\* file: a step that changes the file at the source path is a step of
\* another process, so on every exit (fast path, success, error) the source
\* is the file that other processes left.
C5_SourceUntouched == [][fs'[SourcePath] # fs[SourcePath] => EnvShrink]_vars

C5_Witness ==
  /\ spc = "error"
  /\ Len(opened) = 2
  /\ ~srcChanged
  /\ chunks = <<ChunkPath(SourcePath, 0)>>
  /\ fs[SourcePath] = entryFs[SourcePath]
  /\ fs[SourcePath] # <<>>

(***************************************************************************)
(* Properties of triggerAndWaitForSave.                                    *)
(***************************************************************************)
\* a poll has been answered in this call
Polled == resp # NoResp

\* Date.now() - startWait
Elapsed == now - startWait

\* C6: the waiter ends with Completed on the first poll whose parsed token
\* is strictly greater than the baseline read on entry, and never on a poll
\* whose token is at most the baseline: after any answered poll, the call is
\* Completed exactly when that poll's token exceeds the baseline.
C6_CompletedIffTokenGreater ==
  Polled => (wpc = "Completed" <=> resp.token > lastSave)

C6_Witness ==
  /\ wpc = "Completed"
  /\ resp.token = lastSave + 1
  /\ ~resp.err
  /\ lastCheck >= POLL_INTERVAL

\* C7 as stated: on any poll whose reply contains the failure marker the
\* waiter ends with Failed on that same poll.
C7_FailedOnAnyMarker ==
  (Polled /\ resp.err) => wpc = "Failed"

\* C7, amended: on any poll whose reply contains the failure marker and
\* whose parsed token is not greater than the baseline, the waiter ends with
\* Failed on that same poll, without sleeping, polling again or waiting for
\* the timeout; a reply with the marker and a greater token ends the call
\* with Completed; Failed has no other cause.
C7_FailedOnMarkerWithoutNewToken ==
  /\ (Polled /\ resp.err /\ resp.token <= lastSave) => wpc = "Failed"
  /\ (Polled /\ resp.err /\ resp.token > lastSave) => wpc = "Completed"
  /\ wpc = "Failed" => (Polled /\ resp.err /\ resp.token <= lastSave)

C7_Witness ==
  /\ wpc = "Failed"
  /\ resp.err
  /\ resp.token = lastSave
  /\ lastCheck >= POLL_INTERVAL
  /\ Elapsed < SAVE_TIMEOUT
  /\ triggered

\* C8: when no poll observed a token greater than the baseline and none
\* observed the failure marker, a call that ends ends with TimedOut, and it
\* never ends with TimedOut while the elapsed polling time is below the
\* timeout.
C8_TimedOutOnlyAtDeadline ==
  /\ wpc = "TimedOut" => Elapsed >= SAVE_TIMEOUT
  /\ wpc \in {"Completed", "Failed", "TimedOut"} =>
       (wpc = "TimedOut" <=> (Polled /\ resp.token <= lastSave /\ ~resp.err))

C8_Witness ==
  /\ wpc = "TimedOut"
  /\ Elapsed = SAVE_TIMEOUT
  /\ resp = [token |-> lastSave, err |-> FALSE, field |-> Field(Decimal(lastSave))]
  /\ lastSave = BaseToken

\* C9 as stated: whenever the waiter ends with TimedOut, the elapsed time is
\* at least the timeout and less than the timeout plus one poll interval.
C9_TimedOutWithinOneInterval ==
  wpc = "TimedOut" =>
    (Elapsed >= SAVE_TIMEOUT /\ Elapsed < SAVE_TIMEOUT + POLL_INTERVAL)

\* C9, amended: whenever the waiter ends with TimedOut, the elapsed time is
\* at least the timeout, and the timeout was not yet reached when the loop
\* condition was evaluated before: the excess over the timeout is less than
\* the duration of the last iteration (the status query and the sleep),
\* which is one poll interval only if the query is answered at once and the
\* timer is punctual.
C9_TimedOutWithinOneIteration ==
  wpc = "TimedOut" =>
    /\ Elapsed >= SAVE_TIMEOUT
    /\ lastCheck < SAVE_TIMEOUT
    /\ Elapsed - lastCheck >= POLL_INTERVAL

C9_Witness ==
  /\ wpc = "TimedOut"
  /\ Elapsed >= SAVE_TIMEOUT + POLL_INTERVAL
  /\ lastCheck = SAVE_TIMEOUT - POLL_INTERVAL

\* the state of the specification's state machine
Phase(pc) ==
  CASE pc = "idle" -> "Idle"
    [] pc \in {"lastsave", "info", "bgsave"} -> "Triggering"
    [] pc \in {"check", "poll", "sleep"} -> "Polling"
    [] OTHER -> pc

\* the transitions Idle -> Triggering -> Polling -> terminal; a rejected
\* command ends the call from Triggering or Polling
PhaseOrder(p, q) ==
  \/ p = q
  \/ p = "Idle" /\ q = "Triggering"
  \/ p = "Triggering" /\ q = "Polling"
  \/ p = "Polling" /\ q \in {"Completed", "Failed", "TimedOut"}
  \/ p \in {"Triggering", "Polling"} /\ q = "CommandError"

\* C10: every waiter call whose store commands all return eventually reaches
\* exactly one of Completed, Failed and TimedOut, through
\* Idle -> Triggering -> Polling -> terminal; once terminal it issues no
\* further store command and makes no retry.
C10_TerminatesOnce ==
  /\ (wpc = "lastsave") ~> (wpc \in Terminal)
  /\ [][PhaseOrder(Phase(wpc), Phase(wpc'))]_vars
  /\ [][(wpc \in Terminal) => (UNCHANGED waiterVars /\ sent = "none")]_vars

C10_Witness ==
  /\ wpc = "TimedOut"
  /\ triggered
  /\ sent = "none"
  /\ lastBgsaveStatus = "ok"
  /\ rdbLastSaveTime = lastSave
  /\ ~bgsaveInProgress

\* C11: the waiter issues BGSAVE if and only if its preceding status query
\* reported no save in progress, and so never has a trigger on its way to a
\* store in which a background save is running, also when another client
\* can start a save between the waiter's status query and its trigger.
C11_NeverTriggersDuringSave ==
  /\ wpc = "bgsave" => ~infoInProgress
  /\ wpc \in {"check", "poll", "sleep", "Completed", "Failed", "TimedOut"} =>
       (triggered <=> ~infoInProgress)
  /\ wpc = "bgsave" => ~bgsaveInProgress

\* C14 as stated: when a poll's reply lacks the token field or the field is
\* malformed, the waiter takes the token to be 0, raises nothing and keeps
\* polling; Failed is produced only by a reply with the failure marker.
C14_MalformedTokenIsZero ==
  /\ (Polled /\ Malformed(resp.field)) =>
       /\ resp.token = 0
       /\ wpc # "Completed"
       /\ wpc = "Failed" => resp.err
  /\ wpc = "Failed" => resp.err

\* C14, amended: when a poll's reply lacks the token field, or no decimal
\* digit follows the field name, the waiter takes the token to be 0; when
\* digits are followed by other characters it takes the number the leading
\* digits spell, which ends the call with Completed if it exceeds the
\* baseline. No malformed field raises anything: with a token that is not
\* greater than the baseline and no failure marker the waiter goes on
\* polling, and Failed is produced only by a reply with the failure marker.
C14_MalformedTokenIsLeadingDigits ==
  /\ (Polled /\ (~resp.field.present \/ resp.field.text = <<"x">>)) => resp.token = 0
  /\ \A n \in BaseToken..(BaseToken + MaxSaves) :
       (Polled /\ resp.field = Field(Decimal(n) \o <<".", "5">>)) => resp.token = n
  /\ (Polled /\ Malformed(resp.field) /\ resp.token > lastSave) => wpc = "Completed"
  /\ (Polled /\ Malformed(resp.field) /\ resp.token <= lastSave /\ ~resp.err) =>
       wpc \notin {"Completed", "Failed"}
  /\ wpc = "Failed" => resp.err

C14_Witness ==
  /\ wpc = "Completed"
  /\ Malformed(resp.field)
  /\ resp.field.present
  /\ resp.token = lastSave + 1
  /\ ~resp.err

\* C15: if the caller's context is cancelled while the waiter polls, the
\* waiter aborts at the next poll boundary, no later than one poll interval
\* after the cancellation: once cancelled, the loop condition lets no
\* further poll begin.
C15_AbortsAtNextPollBoundary ==
  cancelled => ~polledAfterCancel

\* C16: a failure marker is fatal only if it is observed after the waiter
\* issued a trigger in the same call: a call that issued no trigger (a save
\* was in progress at the status check) does not end with Failed.
C16_FailedOnlyAfterTrigger ==
  wpc = "Failed" => triggered

(***************************************************************************)
(* Properties of the waiter's store commands.                              *)
(***************************************************************************)
\* the step sends a store command
Issues(cmd) == sent' = cmd /\ (sent # cmd \/ wpc' # wpc)

\* the commands a step may send, by the position it leaves
CommandOrder ==
  /\ Issues("LASTSAVE") <=> (wpc = "idle" /\ wpc' = "lastsave")
  /\ Issues("BGSAVE") <=> (wpc = "info" /\ wpc' = "bgsave")
  /\ Issues("INFO") <=> \/ wpc = "lastsave" /\ wpc' = "info"
                        \/ wpc = "check" /\ wpc' = "poll"
  /\ (wpc \in {"check", "poll", "sleep"} \/ wpc \in Terminal) =>
       (sent' \in {"INFO", "none"} /\ (sent' = "INFO" => wpc' = "poll"))
  /\ wpc' = "idle" => wpc = "idle"
  /\ wpc' = "lastsave" => wpc \in {"idle", "lastsave"}
  /\ wpc' = "info" => wpc \in {"lastsave", "info"}
  /\ wpc' = "bgsave" => wpc \in {"info", "bgsave"}
  /\ wpc' = "poll" => wpc \in {"check", "poll"}
  /\ wpc' = "check" => wpc \in {"info", "bgsave", "sleep", "check"}
  /\ wpc' = "sleep" => wpc \in {"poll", "sleep"}

\* the command on its way belongs to the position of the call
CommandInFlight ==
  /\ sent = "LASTSAVE" <=> wpc = "lastsave"
  /\ sent = "BGSAVE" <=> wpc = "bgsave"
  /\ sent = "INFO" <=> wpc \in {"info", "poll"}
  /\ wpc = "bgsave" => triggered

\* C25: the store commands of one waiter call are one baseline token read
\* (LASTSAVE) first, then one status query (INFO), then at most one trigger
\* (BGSAVE), then polling, in which every iteration sends exactly one
\* combined status query (INFO) and no token read; no trigger is sent after
\* polling has started.
C25_CommandSequence == []CommandInFlight /\ [][CommandOrder]_vars

C25_Witness ==
  /\ wpc = "poll"
  /\ sent = "INFO"
  /\ triggered
  /\ lastCheck = 2 * POLL_INTERVAL
  /\ resp.token = lastSave

(***************************************************************************)
(* Properties of splitFile on errors.                                      *)
(***************************************************************************)
\* C12: if a read of the source returns zero bytes before the chunk's
\* computed length has been transferred, splitFile fails with an error: it
\* never returns with a chunk shorter than its computed length.
C12_NoShortChunkOnReturn ==
  SplitDone =>
    \A k \in 1..Len(chunks) : Size(fs[chunks[k]]) = ChunkSize(k - 1)

\* C13: if an I/O error occurs while splitFile produces chunk k, the error
\* leaves splitFile (the handle closed, nothing returned), chunk k is the
\* last file the call opened, the chunks after it are as they were on entry
\* (never created), and every chunk before it is still there, complete.
C13_ErrorAbortsAndKeepsChunks ==
  spc = "error" =>
    /\ ~handleOpen
    /\ idx < numChunks
    /\ Len(opened) = idx + 1
    /\ \A j \in 1..Len(opened) : opened[j] = ChunkPath(SourcePath, j - 1)
    /\ chunks = SubSeq(opened, 1, idx)
    /\ \A j \in 1..idx :
         /\ fs[chunks[j]] # NoFile
         /\ ~srcChanged => fs[chunks[j]] = SourceRange(j)
    /\ \A j \in (idx + 1)..MaxChunks :
         fs[ChunkPath(SourcePath, j)] = entryFs[ChunkPath(SourcePath, j)]

C13_Witness ==
  /\ spc = "error"
  /\ numChunks = 3
  /\ idx = 1
  /\ bytesWritten > 0
  /\ fs[ChunkPath(SourcePath, 0)] = SourceRange(1)
  /\ fs[ChunkPath(SourcePath, 2)] = NoFile

(***************************************************************************)
(* Properties of the copy loop of splitFile.                               *)
(***************************************************************************)
\* every byte of the content c is a source byte of a position in [lo, hi)
InRange(c, lo, hi) ==
  \A j \in 1..Len(c) : c[j][1] = SourcePath /\ lo <= c[j][2] /\ c[j][2] + c[j][3] <= hi

\* the range [start, start + chunkSize) of chunk i holds the content of
\* the file at its path
ChunkInRange(i) ==
  InRange(fs[ChunkPath(SourcePath, i)], Start(i), Start(i) + ChunkSize(i))

\* in the copy loop: the count written so far, the next request and the
\* chunk files
CopyLoopBounds ==
  /\ spc \in {"copy", "end"} =>
       /\ 0 <= bytesWritten /\ bytesWritten <= ChunkSize(idx)
       /\ Size(fs[ChunkPath(SourcePath, idx)]) = bytesWritten
       /\ ChunkInRange(idx)
  /\ spc = "copy" =>
       /\ bytesWritten < ChunkSize(idx)
       /\ ReadSize(idx, bytesWritten) >= 1
       /\ ReadSize(idx, bytesWritten) <= BUFFER_SIZE
       /\ Start(idx) + bytesWritten + ReadSize(idx, bytesWritten) <= Start(idx) + ChunkSize(idx)
  /\ spc \in {"loop", "copy", "end", "done", "error"} =>
       \A i \in 0..(Len(chunks) - 1) : fileSize > maxSizeBytes => ChunkInRange(i)

\* a read and its write: at most min(64 KiB, chunkSize - bytesWritten)
\* bytes, taken from the source at start + bytesWritten and put at the end
\* of the chunk file
CopyStepBounds ==
  (spc = "copy" /\ bytesWritten' # bytesWritten) =>
    LET n == bytesWritten' - bytesWritten
        path == ChunkPath(SourcePath, idx)
    IN /\ n >= 1
       /\ n <= Min(BUFFER_SIZE, ChunkSize(idx) - bytesWritten)
       /\ fs'[path] = Cat(fs[path], << <<SourcePath, Start(idx) + bytesWritten, n>> >>)

\* C24: throughout the copy loop of splitFile, for every chunk,
\* 0 <= bytesWritten <= chunkSize, and each read requests at most
\* min(64 KiB, chunkSize - bytesWritten) bytes at the source offset
\* start + bytesWritten: the transfer buffer never exceeds 64 KiB for any
\* file size and threshold, and no chunk ever receives a byte from outside
\* its range [start, start + chunkSize).
C24_CopyLoopWithinBounds == []CopyLoopBounds /\ [][CopyStepBounds]_vars

C24_Witness ==
  /\ spc = "copy"
  /\ idx = 1
  /\ ChunkSize(idx) = BUFFER_SIZE + 1
  /\ bytesWritten = BUFFER_SIZE
  /\ ReadSize(idx, bytesWritten) = 1
  /\ fs[ChunkPath(SourcePath, 1)] = << <<SourcePath, BUFFER_SIZE + 1, BUFFER_SIZE>> >>

(***************************************************************************)
(* The streaming splitFile against the one that read the whole file.       *)
(***************************************************************************)
\* C26: for every file size, every threshold T > 0 and a source that does
\* not change during the call, the streaming splitFile returns the sequence
\* of paths that the whole-file-in-memory splitFile returns for the same
\* file system, and leaves the same files with the same contents.
C26_StreamingEqualsInMemory ==
  (spc = "done" /\ ~srcChanged) =>
    /\ chunks = InMemorySplit(entryFs, maxSizeBytes).chunks
    /\ fs = InMemorySplit(entryFs, maxSizeBytes).fs

C26_Witness ==
  /\ spc = "done" /\ ~srcChanged
  /\ shortReads = 1
  /\ fileSize = 2 * BUFFER_SIZE + 2
  /\ maxSizeBytes = BUFFER_SIZE + 2
  /\ PrevSplitDone /\ Len(prev.result) = 3
  /\ InMemorySplit(entryFs, maxSizeBytes).chunks
       = <<ChunkPath(SourcePath, 0), ChunkPath(SourcePath, 1)>>
  /\ fs[ChunkPath(SourcePath, 1)] = << <<SourcePath, BUFFER_SIZE + 2, BUFFER_SIZE>> >>
  /\ fs[ChunkPath(SourcePath, 2)] # NoFile

(***************************************************************************)
(* Properties of RedisBackupStrategy.backup.                               *)
(***************************************************************************)
\* C17: backup copies the snapshot file only after the waiter has ended
\* with Completed; when the waiter ends with Failed or TimedOut no file is
\* copied or compressed and no BackupResult is returned.
C17_CopyOnlyAfterCompleted ==
  /\ bpc \in {"copy", "compress", "returned"} => wpc = "Completed"
  /\ outputFile # "none" => wpc = "Completed"
  /\ wpc \in {"Failed", "TimedOut"} =>
       (outputFile = "none" /\ bpc \in {"wait", "rejected"})

C17_Witness ==
  /\ bpc = "returned"
  /\ outputFile = "gz"
  /\ wpc = "Completed"
  /\ triggered
  /\ resp.token = lastSave + 1
  /\ ~connected

(***************************************************************************)
(* Properties of the snapshot path.                                        *)
(***************************************************************************)
\* the text ends with the characters .rdb
EndsWithRdb(path) ==
  Len(path) >= 4 /\ SubSeq(path, Len(path) - 3, Len(path)) = <<".", "r", "d", "b">>

\* backup failed with a BackupError, no BGSAVE sent and no file copied
FailedBeforeSave ==
  /\ bpc = "rejected"
  /\ backupError = "BackupError"
  /\ wpc = "idle"
  /\ ~triggered
  /\ outputFile = "none"

IsSend(e) == e.op = "send"

\* the sends of the call, in order
Sends == SelectSeq(dlog, IsSend)

\* C18: in a multi-part delivery the chunks are sent in ascending order
\* 1..N, chunk k+1 only after chunk k was sent successfully; a chunk file is
\* removed only right after its own successful send, so before the next
\* chunk is sent, and the chunk whose send failed is not removed: a chunk
\* file that is gone was removed after it had been sent.
C18_SentInOrderThenRemoved ==
  (dpc \in {"loop", "send", "remove", "returned"} /\ spc = "done" /\ IsMultiPart) =>
    /\ \A j \in 1..Len(Sends) : Sends[j].k = j
    /\ \A j \in 1..(Len(Sends) - 1) : Sends[j].ok
    /\ \A p \in 1..Len(dlog) :
         ~IsSend(dlog[p]) => (p > 1 /\ dlog[p - 1] = SendEvent(dlog[p].k, TRUE))
    /\ \A p \in 1..(Len(dlog) - 1) :
         (IsSend(dlog[p]) /\ dlog[p].ok) => dlog[p + 1].op = "remove"
    /\ \A k \in 1..Len(chunks) :
         fs[chunks[k]] = NoFile =>
           \E p \in 2..Len(dlog) :
             dlog[p] = RemoveEvent(k, TRUE) /\ dlog[p - 1] = SendEvent(k, TRUE)
    /\ dresult = "success" => Len(Sends) = Len(chunks)

C18_Witness ==
  /\ dresult = "success"
  /\ Len(chunks) = 3
  /\ Len(dlog) = 6
  /\ \A k \in 1..3 : fs[chunks[k]] = NoFile
  /\ fs[SourcePath] # NoFile

(***************************************************************************)
(* Properties of BackupManager.run.                                        *)
(***************************************************************************)
Happened(e) == \E i \in 1..Len(mlog) : mlog[i] = e

\* every b of the log has an a before it
EveryAfter(b, a) ==
  \A j \in 1..Len(mlog) : mlog[j] = b => \E i \in 1..(j - 1) : mlog[i] = a

IsProgress(e) == e.ev = "progress"

\* the phases of the progress events, in order
Progress == SelectSeq(mlog, IsProgress)

PhaseRank(ph) == CASE ph = "backup" -> 1 [] ph = "delivery" -> 2 [] ph = "cleanup" -> 3

\* C19: in every run, deliver is invoked only after the backup strategy
\* resolved with a result, the cleanup of the success path only after
\* deliver reported success, onSuccess only after that cleanup finished (or
\* was skipped because retainBackup is true), and the progress events come
\* in the order backup, delivery, cleanup.
C19_PhasesInOrder ==
  /\ EveryAfter(CallEvent("deliver"), SettleEvent("backup"))
  /\ Happened(CallEvent("deliver")) => backupResult
  /\ EveryAfter(CallEvent("cleanup"), SettleEvent("deliver:success"))
  /\ EveryAfter(CallEvent("onSuccess"),
                IF shouldRetainBackup THEN SettleEvent("deliver:success")
                ELSE SettleEvent("cleanup"))
  /\ shouldRetainBackup => ~Happened(CallEvent("cleanup"))
  /\ \A i, j \in 1..Len(Progress) :
       i < j => PhaseRank(Progress[i].arg) <= PhaseRank(Progress[j].arg)
  /\ mpc = "resolved" =>
       Progress = [i \in 1..(IF shouldRetainBackup THEN 4 ELSE 6) |->
                     ProgressEvent(<<"backup", "backup", "delivery", "delivery",
                                     "cleanup", "cleanup">>[i])]

C19_Witness ==
  /\ mpc = "resolved"
  /\ ~shouldRetainBackup
  /\ mlog[Len(mlog)] = CallEvent("onSuccess")
  /\ Len(mlog) = 13

\* the strategy's cleanup has been invoked, in the cleanup phase or in the
\* catch block
CleanupInvoked == Happened(CallEvent("cleanup")) \/ Happened(CallEvent("cleanupOnError"))

\* C20: once the backup phase has produced a result, cleanup is invoked
\* before run settles if and only if retainBackup is false, whether
\* delivery succeeds, reports success = false or rejects; with retainBackup
\* true cleanup is never invoked.
C20_CleanupIffNotRetained ==
  /\ (mpc \in {"resolved", "rejected"} /\ backupResult) =>
       (CleanupInvoked <=> ~shouldRetainBackup)
  /\ shouldRetainBackup => ~CleanupInvoked

C20_Witness ==
  /\ mpc = "rejected"
  /\ backupResult
  /\ ~shouldRetainBackup
  /\ caught = [isBackupError |-> FALSE, phase |-> "none"]
  /\ mlog[Len(mlog)] = CallEvent("cleanupOnError")
  /\ Happened(CallEvent("deliver"))
  /\ ~Happened(SettleEvent("deliver:success"))
  /\ ~Happened(SettleEvent("deliver:failure"))

IsOnError(e) == e.ev = "onError"

\* the invocations of the error callback, in order
OnErrors == SelectSeq(mlog, IsOnError)

\* run left the try block in its delivery phase: after the progress event
\* that begins the phase, and without a delivery result of success
DeliveryPhaseFailed ==
  /\ mpc \in {"catch", "onError", "rejected"}
  /\ Happened(ProgressEvent("delivery"))
  /\ ~Happened(SettleEvent("deliver:success"))

\* C21: whenever the delivery phase of run fails (deliver returns
\* success = false, or deliver or the validation of the delivery
\* configuration throws), run rejects and a registered onError callback is
\* invoked exactly once, with the phase 'delivery'.
C21_DeliveryFailureReportsDelivery ==
  (mpc = "rejected" /\ DeliveryPhaseFailed /\ onErrorCallback) =>
    OnErrors = << [ev |-> "onError", arg |-> "delivery"] >>

(***************************************************************************)
(* Properties of the Registry.                                             *)
(***************************************************************************)
\* the map a register call is about, before the call and now
MapBefore == IF lastRegister.kind = "backup" THEN lastRegister.backup ELSE lastRegister.delivery

MapNow == IF lastRegister.kind = "backup" THEN backupStrategies ELSE deliveryStrategies

\* C22: registering a backup (or delivery) strategy under a name already
\* registered in that map throws and leaves the registry as it was: the name
\* still resolves to the first factory and the list of names is the same;
\* a name of the other map does not count, and a name that is new to its
\* map is registered without an error.
C22_DuplicateThrowsAndKeepsFirst ==
  lastRegister.kind # "none" =>
    /\ lastRegister.threw <=> MapHas(MapBefore, lastRegister.name)
    /\ lastRegister.threw =>
         /\ backupStrategies = lastRegister.backup
         /\ deliveryStrategies = lastRegister.delivery
         /\ MapGet(MapNow, lastRegister.name) = MapGet(MapBefore, lastRegister.name)
         /\ MapKeys(MapNow) = MapKeys(MapBefore)
    /\ ~lastRegister.threw =>
         /\ MapGet(MapNow, lastRegister.name) = lastRegister.factory
         /\ MapKeys(MapNow) = Append(MapKeys(MapBefore), lastRegister.name)
    /\ \A i, j \in 1..Len(MapNow) : MapNow[i].name = MapNow[j].name => i = j

C22_Witness ==
  /\ lastRegister.kind = "delivery"
  /\ lastRegister.threw
  /\ lastRegister.name = "mock"
  /\ lastRegister.factory = "createOther"
  /\ MapGet(deliveryStrategies, "mock") = "createFirst"
  /\ MapKeys(deliveryStrategies) = <<"redis", "mock">>
  /\ MapKeys(backupStrategies) = <<"redis">>

IsCleanup(e) == e = CallEvent("cleanup") \/ e = CallEvent("cleanupOnError")

\* the invocations of backupStrategy.cleanup, in order
Cleanups == SelectSeq(mlog, IsCleanup)

\* C27: in any single run, backupStrategy.cleanup is invoked at most once,
\* also when cleanup itself rejects or when the onSuccess callback throws.
C27_CleanupAtMostOnce == Len(Cleanups) <= 1

\* C28: in any single run, the onSuccess and onError callbacks are never
\* both invoked: onError is invoked only if no phase completed into
\* onSuccess, and a run that invoked onSuccess resolves.
C28_OnSuccessExcludesOnError ==
  /\ ~(Happened(CallEvent("onSuccess")) /\ OnErrors # <<>>)
  /\ (Happened(CallEvent("onSuccess")) /\ mpc \in {"resolved", "rejected"}) => mpc = "resolved"

(***************************************************************************)
(* Properties of run with a delivery strategy of this package.             *)
(***************************************************************************)
\* deliver returned a failure that came from sending a chunk of several
MultiPartSendFailed ==
  /\ dpc = "returned"
  /\ dresult = "failure"
  /\ spc = "done"
  /\ IsMultiPart

\* the chunk whose send failed: the last one sent
FailedChunk == Len(Sends)

\* the chunks from the failed one on are on disk, during the rest of run
\* and when it has settled
LaterChunksRemain ==
  /\ FailedChunk >= 1
  /\ ~Sends[FailedChunk].ok
  /\ \A j \in FailedChunk..Len(chunks) : fs[chunks[j]] # NoFile

\* the cleanup of the catch block leaves every path but the backup file's
\* alone
CleanupTouchesBackupFileOnly ==
  (mpc = "catch" /\ mpc' = "onError") =>
    \A p \in Paths \ {SourcePath} : fs'[p] = fs[p]

\* C29 as stated: when a multi-part delivery fails while sending chunk k of
\* N, chunks 1..k-1 have been deleted and chunk files k..N remain on disk
\* after deliver returns; the cleanup of run then removes only the original
\* backup file path, so chunk files k..N are still there when run settles.
C29_EarlierChunksDeleted ==
  MultiPartSendFailed =>
    /\ LaterChunksRemain
    /\ \A j \in 1..(FailedChunk - 1) : fs[chunks[j]] = NoFile

\* C29, amended: when a multi-part delivery fails while sending chunk k of
\* N, removeFile has been called for each of the chunks 1..k-1 and has
\* deleted it unless the removal failed, which removeFile does not report;
\* chunk files k..N remain on disk after deliver returns; the cleanup of
\* run then touches only the original backup file path, so chunk files k..N
\* are still there when run settles.
C29_LaterChunksLeftBehind ==
  /\ [](MultiPartSendFailed =>
          /\ LaterChunksRemain
          /\ \A j \in 1..(FailedChunk - 1) :
               \/ fs[chunks[j]] = NoFile
                    /\ \E p \in 1..Len(dlog) : dlog[p] = RemoveEvent(j, TRUE)
               \/ fs[chunks[j]] # NoFile
                    /\ \E p \in 1..Len(dlog) : dlog[p] = RemoveEvent(j, FALSE))
  /\ [][CleanupTouchesBackupFileOnly]_vars

C29_Witness ==
  /\ mpc = "rejected"
  /\ MultiPartSendFailed
  /\ Len(chunks) = 3
  /\ FailedChunk = 2
  /\ fs[chunks[1]] = NoFile
  /\ fs[chunks[2]] # NoFile
  /\ fs[chunks[3]] # NoFile
  /\ fs[SourcePath] = NoFile
  /\ Happened(CallEvent("cleanupOnError"))

\* deliver has met an error of splitFile or of sending a chunk
DeliverMetError ==
  \/ dpc \in {"returned"} /\ spc = "error"
  \/ Sends # <<>> /\ ~Sends[Len(Sends)].ok

\* what deliver does with errors, and when it reports success
DeliverResolvesOnError ==
  /\ DeliverMetError => (dpc = "returned" /\ dresult = "failure")
  /\ spc = "error" => dpc \in {"split", "returned"}
  /\ dresult = "success" =>
       /\ dpc = "returned"
       /\ Len(Sends) = Len(chunks)
       /\ \A j \in 1..Len(Sends) : Sends[j] = SendEvent(j, TRUE)
  /\ dresult = "failure" => (dpc = "returned" /\ DeliverMetError)

\* deliver rejects only where it parses its configuration
RejectsOnlyAtParse == dpc' = "rejected" => dpc \in {"idle", "rejected"}

\* run has caught the failure that deliver reported
FailureReported == Happened(SettleEvent("deliver:failure"))

====
